---- MODULE Spec2Model ----
(***************************************************************************)
(* HybridRepository (ame/repository/hybrid_repository.py) over FaissStore, *)
(* FalkorStore and MetadataStore.  Every call of the repository runs in a  *)
(* slot of Procs; a step of a call is the code between two awaits on an    *)
(* external collaborator (vector index, graph store, embedder, NER), and   *)
(* the awaited store call is a step of its own.  Time is counted in days.  *)
(***************************************************************************)
EXTENDS Integers, Sequences, FiniteSets, TLC

\* ---------------------------------------------------------------- bounds
\* calls started in one behaviour of Spec, SpecStores, SpecLifecycle and
\* SpecConcurrent
MaxCalls == 3
MaxCallsStores == 4
MaxCallsLifecycle == 5
MaxCallsConcurrent == 4
\* calls started in one behaviour of SpecCreates
MaxCallsCreates == 3
\* creates started in one behaviour of SpecSearch
MaxCallsSearch == 3
\* days that pass in one behaviour of SpecLifecycle
MaxCallsExtractor == 3
\* calls of the retriever and of the pipeline
MaxCallsRetrieve == 2
\* direct calls of _expand_with_multi_hop, and the rows one find_related_docs
\* returns
MaxCallsExpand == 1
MaxRelated == 2
MaxCallsMentions == 3
\* HybridRetriever objects constructed
MaxCallsFusion == 1
\* direct calls of the FaissStore, and the length of a batch
MaxCallsFaiss == 4
MaxBatch == 2
MaxCallsRoundTrip == 2
MaxTicks == 1

\* ------------------------------------------------------ program constants
HotDays == 7
WarmDays == 30
\* importance is counted in tenths: the cutoff 0.7 is 7
ImportanceCutoff == 7
\* metadata.list(limit=1000) of lifecycle_management, scaled down so that the
\* document universe of the model can exceed it
ListLimit == 2
\* doc.faiss_index is None
NoIndex == -1
\* a Document node that has no MENTIONS edge to the entity
NoEdge == -1
\* clock of the first call, in days
Now0 == 40

DocIds == {"d1", "d2", "d3"}
Procs == {"p1", "p2"}
Contents == {"c1", "c2"}
Layers == {"hot", "warm", "cold"}
\* at the cutoff, above the cutoff
Importances == {7, 9}
\* at the first call: not yet past the first threshold, past the first but not
\* yet the second, past both; a day later the first two have moved on
TimeStamps == {Now0 - HotDays, Now0 - WarmDays, Now0 - WarmDays - 5}
\* outcome of ner.extract: it raises, finds nothing, or finds one entity
NerOutcomes == {"fail", "none", "e1"}
EntityScore == 1

VARIABLES
    meta,            \* MetadataStore: documents table, doc id -> row
    id_map,          \* FaissStore.id_map: faiss id -> doc id
    reverse_id_map,  \* FaissStore.reverse_id_map: doc id -> faiss id
    ntotal,          \* FaissStore.index.ntotal
    graph,           \* FalkorStore: doc id -> one MENTIONS weight per Document node
    entities,        \* FalkorStore: names of the Entity nodes
    embedding_fn,    \* HybridRepository.embedding_fn is configured
    now,             \* datetime.now(), in days
    call,            \* the call each slot is running, with its locals
    calls,           \* number of calls started so far
    lastRun          \* what the last completed call was (history)

vars == <<meta, id_map, reverse_id_map, ntotal, graph, entities,
          embedding_fn, now, call, calls, lastRun>>

stores == <<meta, id_map, reverse_id_map, ntotal, graph, entities>>

\* ------------------------------------------------------------ MetadataStore
NoRow == [id |-> "none"]

HasRow(m, d) == m[d] /= NoRow

\* an insert that leaves the type of the document to a default of the column
RowOfDefaultType(doc) ==
    [id |-> doc.id, content |-> doc.content, doc_type |-> "rag_knowledge",
     layer |-> doc.layer,
     importance |-> doc.importance, timestamp |-> doc.timestamp,
     faiss_index |-> doc.faiss_index, stored_in_faiss |-> doc.stored_in_faiss,
     graph_node_id |-> doc.graph_node_id, stored_in_graph |-> doc.stored_in_graph,
     status |-> doc.status]

\* MetadataStore.insert: the columns the repository reads back
RowOf(doc) ==
    [id |-> doc.id, content |-> doc.content, doc_type |-> doc.doc_type,
     layer |-> doc.layer,
     importance |-> doc.importance, timestamp |-> doc.timestamp,
     faiss_index |-> doc.faiss_index, stored_in_faiss |-> doc.stored_in_faiss,
     graph_node_id |-> doc.graph_node_id, stored_in_graph |-> doc.stored_in_graph,
     status |-> doc.status]

\* MetadataStore.list(layer=..., before=...): rows of the layer whose
\* timestamp is strictly before the bound
ListMatches(m, layer, before) ==
    {d \in DocIds : HasRow(m, d) /\ m[d].layer = layer /\ m[d].timestamp < before}

\* ---------------------------------------------------------------- FaissStore
EmptyMap == [x \in {} |-> x]

\* the new entry written over the last id handed out
AddIdMapOffByOne(im, n, d) ==
    LET k == IF n = 0 THEN 0 ELSE n - 1
    IN  [i \in (DOMAIN im) \cup {k} |-> IF i = k THEN d ELSE im[i]]

AddIdMap(im, n, d) ==
    [i \in (DOMAIN im) \cup {n} |-> IF i = n THEN d ELSE im[i]]

AddReverse(rm, n, d) ==
    [x \in (DOMAIN rm) \cup {d} |-> IF x = d THEN n ELSE rm[x]]

RemoveIdMap(im, rm, d) ==
    IF d \in DOMAIN rm THEN [i \in (DOMAIN im) \ {rm[d]} |-> im[i]] ELSE im

\* a remove that forgets the reverse map
RemoveReverseKept(rm, d) == rm

RemoveReverse(rm, d) ==
    [x \in (DOMAIN rm) \ {d} |-> rm[x]]

\* FaissStore.search with top_k >= ntotal: the doc ids of the live entries
Search(im) == {im[i] : i \in DOMAIN im}

Findable(d) == d \in Search(id_map)

\* ---------------------------------------------------------------- FalkorStore
\* create_node("Document", {id: d, ...}): CREATE adds one more node with that id
CreateNode(g, d) == [g EXCEPT ![d] = Append(g[d], NoEdge)]

\* ON MATCH SET r.weight = $weight
MergeWeightOverwrite(w, weight) == weight

\* create_relation(source=d, target=entity, "MENTIONS", weight): MERGE on every
\* node matching {id: d}; ON CREATE the weight is set, ON MATCH it is added
MergeWeight(w, weight) == IF w = NoEdge THEN weight ELSE w + weight

CreateRelation(g, d, weight) ==
    [g EXCEPT ![d] = [i \in DOMAIN g[d] |-> MergeWeight(g[d][i], weight)]]

\* _write_to_graph, line 312-327: one create_relation for every Entity object
\* of the document; k of them name the entity
RECURSIVE CreateRelations(_, _, _, _)
CreateRelations(g, d, weight, k) ==
    IF k = 0 THEN g ELSE CreateRelations(CreateRelation(g, d, weight), d, weight, k - 1)

\* the Entity objects of the outcomes of ner.extract: "e1e1" is a text that
\* names the entity twice
Mentions(ner) == IF ner = "e1" THEN 1 ELSE IF ner = "e1e1" THEN 2 ELSE 0

\* delete_node(d): MATCH (n {id: d}) DETACH DELETE n
DeleteNode(g, d) == [g EXCEPT ![d] = <<>>]

\* ------------------------------------------------------------------- calls
NoDoc == [id |-> "-"]
NoSnap == [none |-> TRUE]
NoLocals == [none |-> TRUE]

Idle ==
    [op |-> "idle", pc |-> "-", result |-> "-", doc |-> NoDoc,
     ft |-> "none", gt |-> "none", upd |-> [kind |-> "-"],
     queue |-> <<>>, phase |-> "-", t0 |-> 0, found |-> {}, loc |-> NoLocals,
     quiet |-> FALSE, startCalls |-> 0, pre |-> NoSnap, after |-> "-",
     truncated |-> FALSE]

\* a Document as the caller constructs it: the side-store fields have the
\* defaults of the documents table
NewDocs(ids, contents, embeddings, layers, stamps) ==
    [id : ids, content : contents, doc_type : {"rag_knowledge"},
     hasEmbedding : embeddings,
     layer : layers, importance : Importances, timestamp : stamps,
     faiss_index : {NoIndex}, stored_in_faiss : {FALSE},
     graph_node_id : {"-"}, stored_in_graph : {FALSE},
     status : {"processing"}]

OthersIdle(p) == \A q \in Procs \ {p} : call[q] = Idle

Snapshot ==
    [meta |-> meta, id_map |-> id_map, reverse_id_map |-> reverse_id_map,
     graph |-> graph, entities |-> entities]

\* the slots are taken in order
Free(p) == call[p] = Idle /\ (p = "p2" => call["p1"] /= Idle)

\* a call that starts in a free slot
Begin(p, c) ==
    /\ Free(p)
    /\ calls' = calls + 1
    /\ call' = [call EXCEPT ![p] =
                  [c EXCEPT !.quiet = OthersIdle(p), !.startCalls = calls + 1]]

\* the call ran with no step of another call in between
Quiet(c) == c.quiet /\ c.startCalls = calls

Step(p, c) == call' = [call EXCEPT ![p] = c]

\* ------------------------------------------------ HybridRepository.create
\* the graph write left out of the tasks
GatherWithoutGraph(c) ==
    [c EXCEPT !.pc = "gather",
              !.ft = IF c.doc.hasEmbedding THEN "todo" ELSE "none",
              !.gt = "done"]

\* line 76-79: the tasks handed to asyncio.gather
Gather(c) ==
    [c EXCEPT !.pc = "gather",
              !.ft = IF c.doc.hasEmbedding THEN "todo" ELSE "none",
              !.gt = "node"]

\* the failure of the embedder swallowed: create goes on without a vector
EmbedFailedSwallowed(c) ==
    [c EXCEPT !.pc = "gather", !.ft = "none", !.gt = "node"]

\* line 71 raises: the exception leaves create before any task is made
EmbedFailed(c) == [c EXCEPT !.pc = "done", !.result = "failed"]

\* line 70: the embedding is asked for only when there is none and an
\* embedding function is configured
CreateStart(p, doc) ==
    /\ Begin(p, IF ~doc.hasEmbedding /\ embedding_fn
                 THEN [Idle EXCEPT !.op = "create", !.pc = "embed", !.doc = doc]
                 ELSE Gather([Idle EXCEPT !.op = "create", !.doc = doc]))
    /\ UNCHANGED <<stores, embedding_fn, now>>
    /\ lastRun' = "other"

CreateEmbed(p, ok) ==
    /\ call[p].op = "create" /\ call[p].pc = "embed"
    /\ Step(p, IF ok
               THEN Gather([call[p] EXCEPT !.doc.hasEmbedding = TRUE])
               ELSE EmbedFailed(call[p]))
    /\ UNCHANGED <<stores, embedding_fn, now, calls, lastRun>>

\* _write_to_faiss: faiss.add, then doc.faiss_index and doc.stored_in_faiss
CreateWriteFaiss(p, ok) ==
    /\ call[p].op = "create" /\ call[p].pc \in {"gather", "raised"}
    /\ call[p].ft = "todo"
    /\ IF ok
       THEN /\ id_map' = AddIdMap(id_map, ntotal, call[p].doc.id)
            /\ reverse_id_map' = AddReverse(reverse_id_map, ntotal, call[p].doc.id)
            /\ ntotal' = ntotal + 1
            /\ Step(p, [call[p] EXCEPT !.ft = "done",
                                       !.doc.faiss_index = ntotal,
                                       !.doc.stored_in_faiss = TRUE])
       ELSE /\ Step(p, [call[p] EXCEPT !.ft = "failed"])
            /\ UNCHANGED <<id_map, reverse_id_map, ntotal>>
    /\ UNCHANGED <<meta, graph, entities, embedding_fn, now, calls, lastRun>>

\* _write_to_graph, line 300-307: the Document node
CreateGraphNode(p, ok) ==
    /\ call[p].op = "create" /\ call[p].pc \in {"gather", "raised"}
    /\ call[p].gt = "node"
    /\ IF ok
       THEN /\ graph' = CreateNode(graph, call[p].doc.id)
            /\ Step(p, [call[p] EXCEPT !.gt = "ner",
                                       !.doc.graph_node_id = call[p].doc.id,
                                       !.doc.stored_in_graph = TRUE])
       ELSE /\ Step(p, [call[p] EXCEPT !.gt = "failed"])
            /\ UNCHANGED graph
    /\ UNCHANGED <<meta, id_map, reverse_id_map, ntotal, entities,
                   embedding_fn, now, calls, lastRun>>

\* a failure of the NER service that leaves _write_to_graph as an exception
CreateGraphEntitiesRaising(p, ner) ==
    /\ call[p].op = "create" /\ call[p].pc \in {"gather", "raised"}
    /\ call[p].gt = "ner"
    /\ IF Mentions(ner) > 0
       THEN /\ entities' = entities \cup {"e1"}
            /\ graph' = CreateRelations(graph, call[p].doc.id, EntityScore,
                                        Mentions(ner))
       ELSE UNCHANGED <<entities, graph>>
    /\ Step(p, [call[p] EXCEPT !.gt = IF ner = "fail" THEN "failed" ELSE "done",
                               !.loc = [nerFailed |-> (ner = "fail"),
                                        mentions |-> Mentions(ner)]])
    /\ UNCHANGED <<meta, id_map, reverse_id_map, ntotal,
                   embedding_fn, now, calls, lastRun>>

\* _write_to_graph, line 310-327: _extract_entity_objects swallows a failure
\* of the NER service; every entity found is merged and mentioned
CreateGraphEntities(p, ner) ==
    /\ call[p].op = "create" /\ call[p].pc \in {"gather", "raised"}
    /\ call[p].gt = "ner"
    /\ IF Mentions(ner) > 0
       THEN /\ entities' = entities \cup {"e1"}
            /\ graph' = CreateRelations(graph, call[p].doc.id, EntityScore,
                                        Mentions(ner))
       ELSE UNCHANGED <<entities, graph>>
    /\ Step(p, [call[p] EXCEPT !.gt = "done",
                               !.loc = [nerFailed |-> (ner = "fail"),
                                        mentions |-> Mentions(ner)]])
    /\ UNCHANGED <<meta, id_map, reverse_id_map, ntotal,
                   embedding_fn, now, calls, lastRun>>

\* asyncio.gather raises as soon as one of its tasks has raised
GatherRaised(c) == c.ft = "failed" \/ c.gt = "failed"

\* the join that takes a task that raised for a task that returned
WritesCompleteIgnoringErrors(c) ==
    c.ft \in {"none", "done", "failed"} /\ c.gt \in {"done", "failed"}

\* asyncio.gather returns when every task has returned
WritesComplete(c) == c.ft \in {"none", "done"} /\ c.gt = "done"

TasksPending(c) == c.ft = "todo" \/ c.gt \in {"node", "ner"}

\* line 82-89: the join, then metadata.insert (the primary key rejects a
\* second row of the same id)
CreateJoin(p) ==
    /\ call[p].op = "create" /\ call[p].pc = "gather"
    /\ \/ /\ GatherRaised(call[p])
          /\ Step(p, [call[p] EXCEPT !.pc = "raised", !.result = "failed"])
          /\ UNCHANGED meta
       \/ /\ WritesComplete(call[p])
          /\ IF HasRow(meta, call[p].doc.id)
             THEN /\ Step(p, [call[p] EXCEPT !.pc = "done", !.result = "failed"])
                  /\ UNCHANGED meta
             ELSE /\ meta' = [meta EXCEPT ![call[p].doc.id] =
                                RowOf([call[p].doc EXCEPT !.status = "active"])]
                  /\ Step(p, [call[p] EXCEPT !.pc = "done", !.result = "ok",
                                             !.doc.status = "active"])
    /\ UNCHANGED <<id_map, reverse_id_map, ntotal, graph, entities,
                   embedding_fn, now, calls, lastRun>>

\* --------------------------------------------------- HybridRepository.get
DocTypes == {"rag_knowledge", "work_log"}

\* MetadataStore._row_to_document: the columns as they were inserted; the
\* timestamp is kept as the ISO text of the datetime, which fromisoformat
\* reads back as the same datetime
RowToDocument(row) == row

\* line 91-93: metadata.get(doc_id), the document of the row or None
GetStart(p, d) ==
    /\ Begin(p, [Idle EXCEPT !.op = "get", !.pc = "done",
                             !.result = IF HasRow(meta, d) THEN "ok" ELSE "none",
                             !.doc = IF HasRow(meta, d)
                                     THEN RowToDocument(meta[d]) ELSE NoDoc,
                             !.loc = [doc_id |-> d]])
    /\ UNCHANGED <<stores, embedding_fn, now>>
    /\ lastRun' = "other"

\* ------------------------------------------------ HybridRepository.update
\* the columns of the documents table an update may name
TableColumns ==
    {"content", "doc_type", "layer", "importance", "faiss_index", "stored_in_faiss",
     "graph_node_id", "stored_in_graph", "status", "timestamp"}

\* line 110-114: a changed content adds the key "embedding" to the updates
\* when an embedding function is configured
UpdateKeys(kind, withEmbedding) ==
    IF kind = "content" /\ withEmbedding THEN {"content", "embedding"} ELSE {kind}

\* MetadataStore.update: UPDATE documents SET k = ? ...; sqlite rejects a
\* statement that names a column the table does not have
UpdateRaises(keys) == ~(keys \subseteq TableColumns)

\* UPDATE ... WHERE id = ?: no row, no change
SetColumn(m, d, col, v) ==
    IF ~HasRow(m, d) THEN m
    ELSE CASE col = "content" -> [m EXCEPT ![d].content = v]
           [] col = "layer" -> [m EXCEPT ![d].layer = v]
           [] col = "importance" -> [m EXCEPT ![d].importance = v]
           [] col = "stored_in_faiss" -> [m EXCEPT ![d].stored_in_faiss = v]

UpdateInputs ==
    [kind : {"content"}, value : Contents]
      \cup [kind : {"importance"}, value : Importances]
      \cup [kind : {"layer"}, value : Layers]

\* line 105-114, and line 122-124 when no embedding is made
UpdateStart(p, d, u) ==
    LET c == [Idle EXCEPT !.op = "update", !.upd = u, !.doc = [id |-> d]]
    IN  IF ~HasRow(meta, d)
        THEN /\ Begin(p, [c EXCEPT !.pc = "done", !.result = "none"])
             /\ UNCHANGED <<stores, embedding_fn, now>>
             /\ lastRun' = "other"
        ELSE IF u.kind = "content" /\ embedding_fn
        THEN /\ Begin(p, [c EXCEPT !.pc = "embed", !.doc = meta[d]])
             /\ UNCHANGED <<stores, embedding_fn, now>>
             /\ lastRun' = "other"
        ELSE /\ Begin(p, [c EXCEPT !.pc = "done", !.result = "ok", !.doc = meta[d]])
             /\ meta' = SetColumn(meta, d, u.kind, u.value)
             /\ UNCHANGED <<id_map, reverse_id_map, ntotal, graph, entities,
                            embedding_fn, now>>
             /\ lastRun' = "other"

\* line 117: the old entry is removed only when the row carries a faiss index
AfterEmbed(c) ==
    [c EXCEPT !.pc = IF c.doc.faiss_index /= NoIndex THEN "remove" ELSE "add"]

\* line 113: await self.embedding_fn(new_content)
UpdateEmbed(p, ok) ==
    /\ call[p].op = "update" /\ call[p].pc = "embed"
    /\ Step(p, IF ok THEN AfterEmbed(call[p])
               ELSE [call[p] EXCEPT !.pc = "done", !.result = "failed"])
    /\ UNCHANGED <<stores, embedding_fn, now, calls, lastRun>>

\* line 118: await self.faiss.remove(doc_id)
UpdateRemove(p) ==
    /\ call[p].op = "update" /\ call[p].pc = "remove"
    /\ id_map' = RemoveIdMap(id_map, reverse_id_map, call[p].doc.id)
    /\ reverse_id_map' = RemoveReverse(reverse_id_map, call[p].doc.id)
    /\ Step(p, [call[p] EXCEPT !.pc = "add"])
    /\ UNCHANGED <<meta, ntotal, graph, entities, embedding_fn, now, calls, lastRun>>

\* line 119: await self.faiss.add(new_embedding, doc_id); the id it returns
\* is dropped
UpdateAdd(p) ==
    /\ call[p].op = "update" /\ call[p].pc = "add"
    /\ id_map' = AddIdMap(id_map, ntotal, call[p].doc.id)
    /\ reverse_id_map' = AddReverse(reverse_id_map, ntotal, call[p].doc.id)
    /\ ntotal' = ntotal + 1
    /\ Step(p, [call[p] EXCEPT !.pc = "meta"])
    /\ UNCHANGED <<meta, graph, entities, embedding_fn, now, calls, lastRun>>

\* line 122-124: metadata.update(doc_id, updates), then get
UpdateMeta(p) ==
    /\ call[p].op = "update" /\ call[p].pc = "meta"
    /\ IF UpdateRaises(UpdateKeys(call[p].upd.kind, TRUE))
       THEN /\ Step(p, [call[p] EXCEPT !.pc = "done", !.result = "failed"])
            /\ UNCHANGED meta
       ELSE /\ meta' = SetColumn(meta, call[p].doc.id, call[p].upd.kind, call[p].upd.value)
            /\ Step(p, [call[p] EXCEPT !.pc = "done",
                          !.result = IF HasRow(meta, call[p].doc.id)
                                     THEN "ok" ELSE "none"])
    /\ UNCHANGED <<id_map, reverse_id_map, ntotal, graph, entities,
                   embedding_fn, now, calls, lastRun>>

\* ------------------------------------------------ HybridRepository.delete
\* line 135-146
DeleteStart(p, d) ==
    /\ Begin(p, IF ~HasRow(meta, d)
                THEN [Idle EXCEPT !.op = "delete", !.doc = [id |-> d],
                                  !.pc = "done", !.result = "false"]
                ELSE [Idle EXCEPT !.op = "delete", !.doc = meta[d],
                                  !.pc = "gather",
                        !.ft = IF meta[d].stored_in_faiss THEN "todo" ELSE "none",
                        !.gt = IF meta[d].stored_in_graph
                                    /\ meta[d].graph_node_id /= "-"
                               THEN "todo" ELSE "none"])
    /\ UNCHANGED <<stores, embedding_fn, now>>
    /\ lastRun' = "other"

\* line 143: self.faiss.remove(doc_id)
DeleteFaiss(p) ==
    /\ call[p].op = "delete" /\ call[p].pc = "gather" /\ call[p].ft = "todo"
    /\ id_map' = RemoveIdMap(id_map, reverse_id_map, call[p].doc.id)
    /\ reverse_id_map' = RemoveReverse(reverse_id_map, call[p].doc.id)
    /\ Step(p, [call[p] EXCEPT !.ft = "done"])
    /\ UNCHANGED <<meta, ntotal, graph, entities, embedding_fn, now, calls, lastRun>>

\* line 146: self.graph.delete_node(doc.graph_node_id)
DeleteGraph(p) ==
    /\ call[p].op = "delete" /\ call[p].pc = "gather" /\ call[p].gt = "todo"
    /\ graph' = DeleteNode(graph, call[p].doc.graph_node_id)
    /\ Step(p, [call[p] EXCEPT !.gt = "done"])
    /\ UNCHANGED <<meta, id_map, reverse_id_map, ntotal, entities,
                   embedding_fn, now, calls, lastRun>>

\* line 148-153: after the join, metadata.delete
DeleteMeta(p) ==
    /\ call[p].op = "delete" /\ call[p].pc = "gather"
    /\ call[p].ft /= "todo" /\ call[p].gt /= "todo"
    /\ meta' = [meta EXCEPT ![call[p].doc.id] = NoRow]
    /\ Step(p, [call[p] EXCEPT !.pc = "done", !.result = "true"])
    /\ UNCHANGED <<id_map, reverse_id_map, ntotal, graph, entities,
                   embedding_fn, now, calls, lastRun>>

\* ------------------------------------ HybridRepository.lifecycle_management
\* the sequences without repetition over a set
Orderings(S) ==
    {q \in [1..Cardinality(S) -> S] : \A i, j \in DOMAIN q : i /= j => q[i] /= q[j]}

Min(a, b) == IF a < b THEN a ELSE b

\* MetadataStore.list(layer, before, limit): at most `limit` of the matching
\* rows, read into Document objects.  ORDER BY created_at is an order the
\* caller's created_at values decide: any order, any choice of the rows kept
ListResults(m, layer, before, limit) ==
    LET matches == ListMatches(m, layer, before)
        kept == {S \in SUBSET matches : Cardinality(S) = Min(limit, Cardinality(matches))}
    IN  UNION {{[i \in DOMAIN q |-> [id |-> q[i], importance |-> m[q[i]].importance]]
                  : q \in Orderings(S)} : S \in kept}

Truncates(m, layer, before, limit) ==
    Cardinality(ListMatches(m, layer, before)) > limit

\* the cutoff compared with >= instead of >
KeepsVectorAtCutoff(doc) == doc.importance >= ImportanceCutoff

\* line 255: the scanned document is important enough to stay in the index
KeepsVector(doc) == doc.importance > ImportanceCutoff

\* a demotion to warm that lowers the importance as well
WarmLowerImportance(m, d) ==
    SetColumn(SetColumn(m, d, "layer", "warm"), d, "importance", 1)

\* line 257
Warm(m, d) == SetColumn(m, d, "layer", "warm")

\* line 261-264 and 275-278
Cold(m, d) == SetColumn(SetColumn(m, d, "layer", "cold"), d, "stored_in_faiss", FALSE)

\* line 254-257: the loop over hot_docs runs on until a document needs
\* await self.faiss.remove
RECURSIVE HotPrefix(_, _)
HotPrefix(m, q) ==
    IF q = <<>> THEN [meta |-> m, queue |-> q]
    ELSE IF KeepsVector(Head(q)) THEN HotPrefix(Warm(m, Head(q).id), Tail(q))
    ELSE [meta |-> m, queue |-> q]

Finished(c) == [c EXCEPT !.pc = "done", !.result = "ok", !.queue = <<>>]

\* both scans made before the hot loop
WarmScanTableAtStart(m, c) == c.pre.meta

\* line 267: the warm scan reads the table as the hot loop has left it
WarmScanTable(m, c) == m

\* line 267-273: the scan of the warm documents, up to the first await
EnterWarm(p, m, c) ==
    \E wl \in ListResults(WarmScanTable(m, c), "warm", c.t0 - WarmDays, ListLimit) :
        /\ meta' = m
        /\ LET c1 == [c EXCEPT !.truncated =
                        c.truncated \/ Truncates(WarmScanTable(m, c), "warm",
                                                 c.t0 - WarmDays, ListLimit)]
           IN  Step(p, IF wl = <<>> THEN Finished(c1)
                       ELSE [c1 EXCEPT !.phase = "warm", !.pc = "remove", !.queue = wl])

ContinueHot(p, m, q, c) ==
    LET r == HotPrefix(m, q)
    IN  IF r.queue /= <<>>
        THEN /\ meta' = r.meta
             /\ Step(p, [c EXCEPT !.phase = "hot", !.pc = "remove", !.queue = r.queue])
        ELSE EnterWarm(p, r.meta, c)

\* line 245-257: now is read once, then the hot documents are scanned
LifecycleStart(p) ==
    /\ Free(p)
    /\ calls' = calls + 1
    /\ \E hl \in ListResults(meta, "hot", now - HotDays, ListLimit) :
          ContinueHot(p, meta, hl,
              [Idle EXCEPT !.op = "lifecycle", !.t0 = now,
                           !.quiet = OthersIdle(p), !.startCalls = calls + 1,
                           !.pre = Snapshot,
                           !.after = IF OthersIdle(p) THEN lastRun ELSE "other",
                           !.truncated = Truncates(meta, "hot", now - HotDays, ListLimit)])
    /\ lastRun' = "other"
    /\ UNCHANGED <<id_map, reverse_id_map, ntotal, graph, entities, embedding_fn, now>>

\* line 260 and 274: await self.faiss.remove(doc.id)
LifecycleRemove(p) ==
    /\ call[p].op = "lifecycle" /\ call[p].pc = "remove"
    /\ id_map' = RemoveIdMap(id_map, reverse_id_map, Head(call[p].queue).id)
    /\ reverse_id_map' = RemoveReverse(reverse_id_map, Head(call[p].queue).id)
    /\ Step(p, [call[p] EXCEPT !.pc = "update"])
    /\ UNCHANGED <<meta, ntotal, graph, entities, embedding_fn, now, calls, lastRun>>

\* line 261-264 and 275-278: the row goes cold, and the loop runs on
LifecycleUpdate(p) ==
    /\ call[p].op = "lifecycle" /\ call[p].pc = "update"
    /\ LET m == Cold(meta, Head(call[p].queue).id)
           rest == Tail(call[p].queue)
       IN  IF call[p].phase = "hot"
           THEN ContinueHot(p, m, rest, call[p])
           ELSE /\ meta' = m
                /\ Step(p, IF rest = <<>> THEN Finished(call[p])
                           ELSE [call[p] EXCEPT !.pc = "remove", !.queue = rest])
    /\ UNCHANGED <<id_map, reverse_id_map, ntotal, graph, entities,
                   embedding_fn, now, calls, lastRun>>

\* --------------------------------------------------------- FaissStore.search
\* a reader of the vector index: one awaited call
SearchStart(p) ==
    /\ Begin(p, [Idle EXCEPT !.op = "search", !.pc = "done", !.result = "ok",
                             !.found = Search(id_map)])
    /\ UNCHANGED <<stores, embedding_fn, now, lastRun>>

\* ------------------------------------------- FaissStore, called directly
\* no method of the store awaits: each call is one step.  lastRun is the doc
\* id of the last remove when no call has changed the index since
FaissIds == {"d1", "d2"}
Batches == UNION {[1 .. k -> FaissIds] : k \in 1 .. MaxBatch}

\* line 127-131 and 221-223: the entries of a batch from faiss id n on
RECURSIVE BatchIdMap(_, _, _)
BatchIdMap(im, n, doc_ids) ==
    IF doc_ids = <<>> THEN im
    ELSE BatchIdMap(AddIdMap(im, n, Head(doc_ids)), n + 1, Tail(doc_ids))

RECURSIVE BatchReverse(_, _, _)
BatchReverse(rm, n, doc_ids) ==
    IF doc_ids = <<>> THEN rm
    ELSE BatchReverse(AddReverse(rm, n, Head(doc_ids)), n + 1, Tail(doc_ids))

\* add(embedding, doc_id), line 86-95
FaissAdd(p, d) ==
    /\ Begin(p, [Idle EXCEPT !.op = "add", !.pc = "done", !.result = "ok",
                             !.doc = [id |-> d], !.pre = Snapshot])
    /\ id_map' = AddIdMap(id_map, ntotal, d)
    /\ reverse_id_map' = AddReverse(reverse_id_map, ntotal, d)
    /\ ntotal' = ntotal + 1
    /\ lastRun' = "other"
    /\ UNCHANGED <<meta, graph, entities, embedding_fn, now>>

\* add_batch(embeddings, doc_ids), line 122-133
FaissAddBatch(p, doc_ids) ==
    /\ Begin(p, [Idle EXCEPT !.op = "add_batch", !.pc = "done", !.result = "ok",
                             !.queue = doc_ids, !.pre = Snapshot])
    /\ id_map' = BatchIdMap(id_map, ntotal, doc_ids)
    /\ reverse_id_map' = BatchReverse(reverse_id_map, ntotal, doc_ids)
    /\ ntotal' = ntotal + Len(doc_ids)
    /\ lastRun' = "other"
    /\ UNCHANGED <<meta, graph, entities, embedding_fn, now>>

\* remove(doc_id), line 180-190
FaissRemove(p, d) ==
    /\ Begin(p, [Idle EXCEPT !.op = "remove", !.pc = "done",
                             !.result = IF d \in DOMAIN reverse_id_map
                                        THEN "true" ELSE "false",
                             !.doc = [id |-> d], !.pre = Snapshot,
                             !.after = lastRun])
    /\ id_map' = RemoveIdMap(id_map, reverse_id_map, d)
    /\ reverse_id_map' = IF d \in DOMAIN reverse_id_map
                         THEN RemoveReverse(reverse_id_map, d)
                         ELSE reverse_id_map
    /\ lastRun' = d
    /\ UNCHANGED <<meta, ntotal, graph, entities, embedding_fn, now>>

\* rebuild_index(embeddings, doc_ids), line 209-223
RebuildIndex(p, doc_ids) ==
    /\ Begin(p, [Idle EXCEPT !.op = "rebuild_index", !.pc = "done",
                             !.result = "ok", !.queue = doc_ids,
                             !.pre = Snapshot])
    /\ id_map' = BatchIdMap(EmptyMap, 0, doc_ids)
    /\ reverse_id_map' = BatchReverse(EmptyMap, 0, doc_ids)
    /\ ntotal' = Len(doc_ids)
    /\ lastRun' = "other"
    /\ UNCHANGED <<meta, graph, entities, embedding_fn, now>>

\* -------------------------------------------- HybridRepository.hybrid_search
\* scores and weights are counted in tenths, fused scores in hundredths
ScoreValues == {9, 5}
\* search_by_entities: match_count / max_relevance with one entity to match
GraphScore == 10
Weights == {<<6, 4>>, <<10, 0>>}
TopKs == {1, 2}
NoFilters == [none |-> TRUE]
Filters == {NoFilters, [layer |-> "warm"]}

SearchInputs ==
    [hasQueryEmbedding : BOOLEAN, top_k : TopKs, weights : Weights, filters : Filters]

\* FaissStore.search(query_embedding, k): the k nearest of the ntotal vectors
\* of the index, nearest first, those whose id has left id_map dropped; the
\* distances depend on the vectors, so any order and any scores that do not
\* increase along the list
FaissResults(im, n, k) ==
    LET ids == 0 .. (n - 1)
        kept == {S \in SUBSET ids : Cardinality(S) = Min(k, n)}
        live(q) == SelectSeq(q, LAMBDA i : i \in DOMAIN im)
        scored(q) ==
            {r \in [DOMAIN q -> [doc_id : DocIds, score : ScoreValues]] :
                /\ \A i \in DOMAIN q : r[i].doc_id = im[q[i]]
                /\ \A i, j \in DOMAIN q : i < j => r[i].score >= r[j].score}
    IN  UNION {UNION {scored(live(q)) : q \in Orderings(S)} : S \in kept}

\* the Document nodes that mention the entity of the query, one row a node
GraphRows(g) ==
    UNION {{<<d, i>> : i \in {j \in DOMAIN g[d] : g[d][j] /= NoEdge}} : d \in DocIds}

\* FalkorStore.search_by_entities(query, entities, top_k): every row has the
\* same match count, the timestamps of the nodes decide the order
GraphResults(g, k) ==
    LET rows == GraphRows(g)
        kept == {S \in SUBSET rows : Cardinality(S) = Min(k, Cardinality(rows))}
    IN  UNION {{[i \in DOMAIN q |-> [doc_id |-> q[i][1], score |-> GraphScore]]
                  : q \in Orderings(S)} : S \in kept}

\* position of doc id d in the dict `scores`, 0 when it is no key
RECURSIVE KeyIndex(_, _)
KeyIndex(acc, d) ==
    IF acc = <<>> THEN 0
    ELSE IF acc[Len(acc)].doc_id = d /\ KeyIndex(SubSeq(acc, 1, Len(acc) - 1), d) = 0
         THEN Len(acc)
         ELSE KeyIndex(SubSeq(acc, 1, Len(acc) - 1), d)

\* line 399-405: scores[doc_id] = {...}; a key that is there keeps its place
RECURSIVE MergeFaiss(_, _, _)
MergeFaiss(acc, fr, wv) ==
    IF fr = <<>> THEN acc
    ELSE LET r == Head(fr)
             e == [doc_id |-> r.doc_id, score |-> r.score * wv, source |-> "faiss"]
             k == KeyIndex(acc, r.doc_id)
         IN  MergeFaiss(IF k = 0 THEN Append(acc, e) ELSE [acc EXCEPT ![k] = e],
                        Tail(fr), wv)

\* line 408-418
RECURSIVE MergeGraph(_, _, _)
MergeGraph(acc, gr, wg) ==
    IF gr = <<>> THEN acc
    ELSE LET r == Head(gr)
             k == KeyIndex(acc, r.doc_id)
         IN  MergeGraph(
                IF k = 0
                THEN Append(acc, [doc_id |-> r.doc_id, score |-> r.score * wg,
                                  source |-> "graph"])
                ELSE [acc EXCEPT ![k].score = @ + r.score * wg,
                                 ![k].source = "hybrid"],
                Tail(gr), wg)

\* sorted(..., key=score, reverse=True): stable, equal scores keep their order
RECURSIVE InsertDesc(_, _)
InsertDesc(sorted, e) ==
    IF sorted = <<>> THEN <<e>>
    ELSE IF Head(sorted).score >= e.score
         THEN <<Head(sorted)>> \o InsertDesc(Tail(sorted), e)
         ELSE <<e>> \o sorted

RECURSIVE SortDesc(_)
SortDesc(q) ==
    IF q = <<>> THEN <<>>
    ELSE InsertDesc(SortDesc(SubSeq(q, 1, Len(q) - 1)), q[Len(q)])

\* _merge_results
MergeResults(fr, gr, wv, wg) == SortDesc(MergeGraph(MergeFaiss(<<>>, fr, wv), gr, wg))

\* _apply_filters, line 435-436: the results as they came
ApplyFilters(results, filters) == results

\* line 215-233: the first top_k, those whose document get_by_ids found
Hydrate(m, results, k) ==
    SelectSeq(SubSeq(results, 1, Min(k, Len(results))),
              LAMBDA r : HasRow(m, r.doc_id))

\* line 185-198
SearchGather(c) ==
    [c EXCEPT !.pc = "gather",
              !.ft = IF c.loc.hasQueryEmbedding THEN "todo" ELSE "none",
              !.gt = "ner"]

HybridSearchStart(p, a) ==
    LET c == [Idle EXCEPT !.op = "hybrid_search",
                !.loc = [hasQueryEmbedding |-> a.hasQueryEmbedding,
                         top_k |-> a.top_k, weights |-> a.weights,
                         filters |-> a.filters,
                         embedded |-> FALSE,
                         nerFailed |-> FALSE, graphFailed |-> FALSE,
                         fr |-> <<>>, gr |-> <<>>, merged |-> <<>>, out |-> <<>>]]
    IN  /\ Begin(p, IF ~a.hasQueryEmbedding /\ embedding_fn
                     THEN [c EXCEPT !.pc = "embed"]
                     ELSE SearchGather(c))
        /\ UNCHANGED <<stores, embedding_fn, now>>
        /\ lastRun' = "other"

\* line 186: await self.embedding_fn(query)
HybridSearchEmbed(p, ok) ==
    /\ call[p].op = "hybrid_search" /\ call[p].pc = "embed"
    /\ Step(p, IF ok
               THEN SearchGather([call[p] EXCEPT !.loc.hasQueryEmbedding = TRUE,
                                                 !.loc.embedded = TRUE])
               ELSE [call[p] EXCEPT !.pc = "done", !.result = "failed"])
    /\ UNCHANGED <<stores, embedding_fn, now, calls, lastRun>>

\* line 193: self.faiss.search(query_embedding, top_k * 2)
HybridSearchFaiss(p, ok) ==
    /\ call[p].op = "hybrid_search" /\ call[p].pc = "gather" /\ call[p].ft = "todo"
    /\ IF ok
       THEN \E fr \in FaissResults(id_map, ntotal, 2 * call[p].loc.top_k) :
               Step(p, [call[p] EXCEPT !.ft = "done", !.loc.fr = fr])
       ELSE Step(p, [call[p] EXCEPT !.ft = "failed"])
    /\ UNCHANGED <<stores, embedding_fn, now, calls, lastRun>>

\* _graph_search, line 373-376: _extract_entities swallows a failure of the
\* NER service; no entity, no graph query
HybridSearchEntities(p, ner) ==
    /\ call[p].op = "hybrid_search" /\ call[p].pc = "gather" /\ call[p].gt = "ner"
    /\ Step(p, [call[p] EXCEPT !.gt = IF ner = "e1" THEN "graph" ELSE "done",
                               !.loc.nerFailed = (ner = "fail")])
    /\ UNCHANGED <<stores, embedding_fn, now, calls, lastRun>>

\* _graph_search, line 379: search_by_entities swallows a failure of the query
HybridSearchGraph(p, ok) ==
    /\ call[p].op = "hybrid_search" /\ call[p].pc = "gather" /\ call[p].gt = "graph"
    /\ IF ok
       THEN \E gr \in GraphResults(graph, call[p].loc.top_k) :
               Step(p, [call[p] EXCEPT !.gt = "done", !.loc.gr = gr])
       ELSE Step(p, [call[p] EXCEPT !.gt = "done", !.loc.graphFailed = TRUE])
    /\ UNCHANGED <<stores, embedding_fn, now, calls, lastRun>>

\* line 200-235: the join, the merge, the filters, the documents
HybridSearchJoin(p) ==
    /\ call[p].op = "hybrid_search" /\ call[p].pc = "gather"
    /\ \/ /\ GatherRaised(call[p])
          /\ Step(p, [call[p] EXCEPT !.pc = "done", !.result = "failed"])
       \/ /\ call[p].ft \in {"none", "done"} /\ call[p].gt = "done"
          /\ LET l == call[p].loc
                 merged == MergeResults(l.fr, l.gr, l.weights[1], l.weights[2])
                 filtered == IF l.filters /= NoFilters
                             THEN ApplyFilters(merged, l.filters) ELSE merged
             IN  Step(p, [call[p] EXCEPT !.pc = "done", !.result = "ok",
                                        !.loc.merged = merged,
                                        !.loc.out = Hydrate(meta, filtered, l.top_k)])
    /\ UNCHANGED <<stores, embedding_fn, now, calls, lastRun>>

ContinueSearch(p, oks, ners) ==
    \/ \E ok \in oks : HybridSearchEmbed(p, ok)
    \/ \E ok \in oks : HybridSearchFaiss(p, ok)
    \/ \E ner \in ners : HybridSearchEntities(p, ner)
    \/ \E ok \in oks : HybridSearchGraph(p, ok)
    \/ HybridSearchJoin(p)

\* --------------------------------------------------- GraphRetriever.retrieve
\* line 174: initial_results[:5]
SeedLimit == 5
\* line 184: limit=10
RelatedLimit == 10

\* a word of a text, with its number of characters
Word(w, n) == [w |-> w, len |-> n]

\* line 150: the stop words "de", "le", "zai", "shi"
StopWords == {"de", "le", "zai", "shi"}

\* the queries: their length, their length once stripped, what jieba.lcut
\* makes of them and what str.split makes of them.  In order: the empty
\* string, two spaces, one stop word, a word followed by a stop word, a
\* sentence of three words
Queries ==
    {[len |-> 0, strip |-> 0, lcut |-> <<>>, split |-> <<>>],
     [len |-> 2, strip |-> 0, lcut |-> <<Word(" ", 1), Word(" ", 1)>>,
      split |-> <<>>],
     [len |-> 1, strip |-> 1, lcut |-> <<Word("de", 1)>>,
      split |-> <<Word("de", 1)>>],
     [len |-> 3, strip |-> 3, lcut |-> <<Word("ceshi", 2), Word("de", 1)>>,
      split |-> <<Word("ceshide", 3)>>],
     [len |-> 6, strip |-> 6,
      lcut |-> <<Word("zheshi", 2), Word("yige", 2), Word("ceshi", 2)>>,
      split |-> <<Word("zheshiyigeceshi", 6)>>]}

\* a check that takes a query of spaces for a query
BlankOnlyEmpty(q) == q.len = 0

\* line 76: not query or not query.strip()
Blank(q) == q.len = 0 \/ q.strip = 0

\* _fallback_extract: the words of jieba that are longer than one character
\* and no stop words; without jieba, the words between the spaces
FallbackExtract(q, jieba) ==
    IF jieba
    THEN SelectSeq(q.lcut, LAMBDA t : t.len > 1 /\ t.w \notin StopWords)
    ELSE q.split

\* an extraction that falls back when the NER service finds nothing, too
ExtractEntitiesOrFallback(q, ner, jieba) ==
    IF ner = "e1" THEN <<Word("e1", 2)>> ELSE FallbackExtract(q, jieba)

\* _extract_entities: the texts of the entities the NER service found; the
\* fallback only when the service raised
ExtractEntities(q, ner, jieba) ==
    IF ner = "fail" THEN FallbackExtract(q, jieba)
    ELSE IF ner = "e1" THEN <<Word("e1", 2)>>
    ELSE <<>>

\* FalkorStore.search_by_entities(..., top_k): LIMIT $top_k, and no row when
\* the query failed; the number of rows
SearchByEntities(k) == 0 .. k

\* FalkorStore.find_related_docs(..., limit): LIMIT $limit; the number of rows
FindRelatedDocs(limit) == 0 .. limit

\* every result taken for a seed
TopResultsAll(n) == n

\* line 174: the number of seeds
TopResults(n) == Min(n, SeedLimit)

\* line 109-114: the results, cut to top_k; their number
RetrieveResults(n, k) == Min(n, k)

RetrieveTopKs == {1, 3}
MaxHopsValues == {1, 2}

\* enable_multi_hop and max_hops are the values of line 100 and 102: the
\* keyword argument of the call, or else the attribute of the retriever
RetrieveInputs ==
    [query : Queries, top_k : RetrieveTopKs, enable_multi_hop : BOOLEAN,
     max_hops : MaxHopsValues]

RetrieveStart(p, a) ==
    LET c == [Idle EXCEPT !.op = "retrieve", !.result = "ok",
                !.loc = [query |-> a.query, top_k |-> a.top_k,
                         enable_multi_hop |-> a.enable_multi_hop,
                         max_hops |-> a.max_hops,
                         ner |-> "-", jieba |-> FALSE, nerCalls |-> 0,
                         entities |-> <<>>, graphCalls |-> 0, initial |-> 0,
                         seeds |-> 0, finds |-> <<>>, added |-> 0, out |-> 0]]
    IN  /\ Begin(p, IF Blank(a.query) THEN [c EXCEPT !.pc = "done"]
                                       ELSE [c EXCEPT !.pc = "ner"])
        /\ UNCHANGED <<stores, embedding_fn, now>>
        /\ lastRun' = "other"

\* line 80-84: await self._extract_entities(query); no entity, no result
RetrieveEntities(p, ner, jieba) ==
    /\ call[p].op = "retrieve" /\ call[p].pc = "ner"
    /\ LET found == ExtractEntities(call[p].loc.query, ner, jieba)
       IN  Step(p, [call[p] EXCEPT !.pc = IF found = <<>> THEN "done" ELSE "graph",
                                   !.loc.ner = ner,
                                   !.loc.jieba = (ner = "fail" /\ jieba),
                                   !.loc.nerCalls = @ + 1,
                                   !.loc.entities = found])
    /\ UNCHANGED <<stores, embedding_fn, now, calls, lastRun>>

\* line 89-106: await self.graph.search_by_entities(top_k=top_k * 2); no row,
\* no result; without multi-hop the rows are the results
RetrieveGraph(p) ==
    /\ call[p].op = "retrieve" /\ call[p].pc = "graph"
    /\ \E n \in SearchByEntities(2 * call[p].loc.top_k) :
          Step(p, [call[p] EXCEPT
                     !.pc = IF n > 0 /\ call[p].loc.enable_multi_hop
                            THEN "expand" ELSE "done",
                     !.loc.graphCalls = @ + 1,
                     !.loc.initial = n,
                     !.loc.out = RetrieveResults(n, call[p].loc.top_k)])
    /\ UNCHANGED <<stores, embedding_fn, now, calls, lastRun>>

\* _expand_with_multi_hop, line 176-208: one seed; the related documents that
\* are new are added, a failure of the store is passed over.  After the last
\* seed, line 109-114
RetrieveExpand(p, ok) ==
    /\ call[p].op = "retrieve" /\ call[p].pc = "expand"
    /\ call[p].loc.seeds < TopResults(call[p].loc.initial)
    /\ \E rows \in FindRelatedDocs(RelatedLimit) : \E new \in 0 .. rows :
          LET l == call[p].loc
              added == IF ok THEN l.added + new ELSE l.added
          IN  Step(p, [call[p] EXCEPT
                         !.pc = IF l.seeds + 1 = TopResults(l.initial)
                                THEN "done" ELSE "expand",
                         !.loc.seeds = @ + 1,
                         !.loc.finds = Append(@, <<l.max_hops, RelatedLimit>>),
                         !.loc.added = added,
                         !.loc.out = RetrieveResults(l.initial + added, l.top_k)])
    /\ UNCHANGED <<stores, embedding_fn, now, calls, lastRun>>

ContinueRetrieve(p, oks, ners) ==
    \/ \E ner \in ners, jieba \in BOOLEAN : RetrieveEntities(p, ner, jieba)
    \/ RetrieveGraph(p)
    \/ \E ok \in oks : RetrieveExpand(p, ok)

\* ------------------------------------ GraphRetriever._expand_with_multi_hop
\* the expansion with the documents and their scores; scores are counted in
\* ten-thousandths
SeedScores == {10000, 5000}
Distances == {1, 2}
\* a row without the key "distance"
NoDistance == 0

\* a result of search_by_entities
InitialRows ==
    [doc_id : {"d1", "d2"}, score : SeedScores, source : {"graph"},
     hop_distance : {NoDistance}, base_doc_id : {"-"}]

\* initial_results: one or two results
InitialResults == UNION {[1 .. k -> InitialRows] : k \in 1 .. 2}

\* a row of find_related_docs
RelatedRows == [doc_id : {"d2", "d3"}, distance : {NoDistance} \cup Distances]

RelatedDocs == UNION {[1 .. k -> RelatedRows] : k \in 0 .. MaxRelated}

\* a decay that does not grow with the distance
DecayOneHop(score, distance) == (score * 7) \div 10

\* line 194-198: score * 0.7 ** distance
Decay(score, distance) == (score * 7 ^ distance) \div 10 ^ distance

\* every related document taken for a new one
IsNewAlways(existing_doc_ids, d) == TRUE

\* line 191: related_doc_id not in existing_doc_ids
IsNew(existing_doc_ids, d) == d \notin existing_doc_ids

\* line 188-204: the related documents of one seed, in their order
RECURSIVE AddRelated(_, _, _, _)
AddRelated(expanded, existing_doc_ids, result, related_docs) ==
    IF related_docs = <<>>
    THEN [expanded |-> expanded, existing_doc_ids |-> existing_doc_ids]
    ELSE LET related == Head(related_docs)
             distance == IF related.distance = NoDistance THEN 1
                         ELSE related.distance
         IN  IF IsNew(existing_doc_ids, related.doc_id)
             THEN AddRelated(
                     Append(expanded,
                            [doc_id |-> related.doc_id,
                             score |-> Decay(result.score, distance),
                             source |-> "graph_expanded",
                             hop_distance |-> distance,
                             base_doc_id |-> result.doc_id]),
                     existing_doc_ids \cup {related.doc_id},
                     result, Tail(related_docs))
             ELSE AddRelated(expanded, existing_doc_ids, result,
                             Tail(related_docs))

\* line 170-174
ExpandStart(p, initial_results, max_hops) ==
    /\ Begin(p, [Idle EXCEPT !.op = "expand", !.pc = "seed", !.result = "ok",
                   !.loc = [initial_results |-> initial_results,
                            max_hops |-> max_hops,
                            expanded |-> initial_results,
                            existing_doc_ids |->
                               {initial_results[i].doc_id :
                                  i \in DOMAIN initial_results},
                            seeds |-> 0, failed |-> FALSE,
                            related_docs |-> <<>>]])
    /\ UNCHANGED <<stores, embedding_fn, now>>
    /\ lastRun' = "other"

\* line 176-208: one seed; a failure of find_related_docs is passed over
ExpandSeed(p, ok) ==
    /\ call[p].op = "expand" /\ call[p].pc = "seed"
    /\ call[p].loc.seeds < TopResults(Len(call[p].loc.initial_results))
    /\ \E related_docs \in IF ok THEN RelatedDocs ELSE {<<>>} :
          LET l == call[p].loc
              result == l.initial_results[l.seeds + 1]
              new == AddRelated(l.expanded, l.existing_doc_ids, result,
                                related_docs)
          IN  Step(p, [call[p] EXCEPT
                         !.pc = IF l.seeds + 1 = TopResults(Len(l.initial_results))
                                THEN "done" ELSE "seed",
                         !.loc.seeds = @ + 1,
                         !.loc.failed = ~ok,
                         !.loc.related_docs = related_docs,
                         !.loc.expanded = new.expanded,
                         !.loc.existing_doc_ids = new.existing_doc_ids])
    /\ UNCHANGED <<stores, embedding_fn, now, calls, lastRun>>

\* ------------------------------------------------ HybridRetriever.__init__
\* the weights of the vector, graph, keyword and time scores, in tenths
WeightValues == {0, 2, 4, 6}
FusionWeights == [1 .. 4 -> WeightValues]

\* line 50
Total(w) == w[1] + w[2] + w[3] + w[4]

\* line 51-54: every weight over the total, as a fraction
Normalize(w) == [i \in 1 .. 4 |-> <<w[i], Total(w)>>]

\* line 26-54: the division by a total of 0 raises ZeroDivisionError
HybridRetrieverInit(p, w) ==
    /\ Begin(p, [Idle EXCEPT !.op = "HybridRetriever", !.pc = "done",
                   !.result = IF Total(w) = 0 THEN "failed" ELSE "ok",
                   !.loc = [weights |-> w,
                            normalized |-> IF Total(w) = 0 THEN <<>>
                                           ELSE Normalize(w)]])
    /\ UNCHANGED <<stores, embedding_fn, now>>
    /\ lastRun' = "other"

\* ------------------------------------------------- RetrievalPipeline.execute
StageCounts == {0, 1, 2}
StageOutputs == {0, 3, 5}

\* previous_results of the first stage: None
NoResults == -1

PipelineInputs == [query : Queries, top_k : RetrieveTopKs, stages : StageCounts]

\* every stage run as a first stage
StageInputNone(ran, previous) == NoResults

\* what a stage receives: nothing when it is the first, or else the output of
\* the stage before it
StageInput(ran, previous) == IF ran = 0 THEN NoResults ELSE previous

\* execute(query, top_k): [] at once for a blank query, or else the stages in
\* their order
PipelineExecuteStart(p, a) ==
    LET c == [Idle EXCEPT !.op = "execute", !.result = "ok",
                !.loc = [query |-> a.query, top_k |-> a.top_k,
                         stages |-> a.stages, ran |-> 0, previous |-> 0,
                         received |-> <<>>, outputs |-> <<>>, out |-> 0]]
    IN  /\ Begin(p, IF Blank(a.query) \/ a.stages = 0
                     THEN [c EXCEPT !.pc = "done"]
                     ELSE [c EXCEPT !.pc = "stage"])
        /\ UNCHANGED <<stores, embedding_fn, now>>
        /\ lastRun' = "other"

\* one stage: its results are the previous results of the next one, those of
\* the last one are cut to top_k
PipelineExecuteStage(p) ==
    /\ call[p].op = "execute" /\ call[p].pc = "stage"
    /\ \E n \in StageOutputs :
          LET l == call[p].loc
          IN  Step(p, [call[p] EXCEPT
                         !.pc = IF l.ran + 1 = l.stages THEN "done" ELSE "stage",
                         !.loc.ran = @ + 1,
                         !.loc.received = Append(@, StageInput(l.ran, l.previous)),
                         !.loc.outputs = Append(@, n),
                         !.loc.previous = n,
                         !.loc.out = IF l.ran + 1 = l.stages
                                     THEN Min(n, l.top_k) ELSE 0])
    /\ UNCHANGED <<stores, embedding_fn, now, calls, lastRun>>

\* ---------------------------------------------------------- the environment
\* the call returns to its caller (a task of a create that raised runs on to
\* its end first)
Return(p) ==
    /\ \/ call[p].pc = "done"
       \/ call[p].pc = "raised" /\ ~TasksPending(call[p])
    /\ lastRun' = IF call[p].op /= "lifecycle" THEN lastRun
                  ELSE IF ~Quiet(call[p]) \/ now /= call[p].t0 THEN "other"
                  ELSE IF call[p].truncated THEN "truncated" ELSE "full"
    /\ Step(p, Idle)
    /\ UNCHANGED <<stores, embedding_fn, now, calls>>

\* a day passes
Tick ==
    /\ now < Now0 + MaxTicks
    /\ now' = now + 1
    /\ lastRun' = "other"
    /\ UNCHANGED <<stores, embedding_fn, call, calls>>

Init ==
    /\ meta = [d \in DocIds |-> NoRow]
    /\ id_map = EmptyMap
    /\ reverse_id_map = EmptyMap
    /\ ntotal = 0
    /\ graph = [d \in DocIds |-> <<>>]
    /\ entities = {}
    /\ embedding_fn \in BOOLEAN
    /\ now = Now0
    /\ call = [p \in Procs |-> Idle]
    /\ calls = 0
    /\ lastRun = "other"

\* the steps that carry on a call of slot p; oks are the outcomes of the
\* store and embedder calls that can fail, ners those of the NER service
ContinueCreate(p, oks, ners) ==
    \/ \E ok \in oks : CreateWriteFaiss(p, ok)
    \/ \E ok \in oks : CreateGraphNode(p, ok)
    \/ \E ner \in ners : CreateGraphEntities(p, ner)
    \/ CreateJoin(p)

ContinueUpdate(p, oks) ==
    \/ \E ok \in oks : UpdateEmbed(p, ok)
    \/ UpdateRemove(p)
    \/ UpdateAdd(p)
    \/ UpdateMeta(p)

ContinueDelete(p) ==
    \/ DeleteFaiss(p)
    \/ DeleteGraph(p)
    \/ DeleteMeta(p)

ContinueLifecycle(p) ==
    \/ LifecycleRemove(p)
    \/ LifecycleUpdate(p)

Continue(p, oks, ners) ==
    \/ \E ok \in oks : CreateEmbed(p, ok)
    \/ ContinueCreate(p, oks, ners)
    \/ ContinueUpdate(p, oks)
    \/ ContinueDelete(p)
    \/ ContinueLifecycle(p)
    \/ Return(p)

\* one caller, one call after the other, on two documents; every store call
\* of create may fail
SeqIds == {"d1", "d2"}
SeqDocs == NewDocs(SeqIds, {"c1"}, BOOLEAN, {"hot"}, {Now0 - WarmDays, Now0 - WarmDays - 5})

Next ==
    \/ /\ calls < MaxCalls
       /\ \/ \E doc \in SeqDocs : CreateStart("p1", doc)
          \/ \E d \in SeqIds, u \in UpdateInputs : UpdateStart("p1", d, u)
          \/ \E d \in SeqIds : DeleteStart("p1", d)
          \/ LifecycleStart("p1")
    \/ Continue("p1", BOOLEAN, NerOutcomes)

Spec == Init /\ [][Next]_vars

\* one caller, one call after the other, on two documents; no store call
\* fails and no id is created while a row of it is stored
NextStores ==
    \/ /\ calls < MaxCallsStores
       /\ \/ \E doc \in SeqDocs : ~HasRow(meta, doc.id) /\ CreateStart("p1", doc)
          \/ \E d \in SeqIds, u \in UpdateInputs : UpdateStart("p1", d, u)
          \/ \E d \in SeqIds : DeleteStart("p1", d)
          \/ LifecycleStart("p1")
    \/ Continue("p1", {TRUE}, {"e1"})

SpecStores == Init /\ [][NextStores]_vars

\* the callers give every document an id of its own, and the ids are
\* interchangeable: a new id is taken only when the ids before it are stored
InOrder(d) ==
    /\ ~HasRow(meta, d)
    /\ d = "d2" => HasRow(meta, "d1")
    /\ d = "d3" => HasRow(meta, "d1") /\ HasRow(meta, "d2")

\* one caller, three documents of every age, more than one scan returns; no
\* embedding function, so that a document without embedding has no vector
LifecycleDocs == NewDocs(DocIds, {"c1"}, BOOLEAN, {"hot", "warm"}, TimeStamps)

InitLifecycle == Init /\ ~embedding_fn

NextLifecycle ==
    \/ /\ calls < MaxCallsLifecycle
       /\ \/ \E doc \in LifecycleDocs : InOrder(doc.id) /\ CreateStart("p1", doc)
          \/ LifecycleStart("p1")
    \/ ContinueCreate("p1", {TRUE}, {"none"})
    \/ ContinueLifecycle("p1")
    \/ Return("p1")
    \/ Tick

SpecLifecycle == InitLifecycle /\ [][NextLifecycle]_vars

\* two callers whose calls interleave at every await
ConcurrentDocs == NewDocs(SeqIds, {"c1"}, {TRUE}, {"hot"}, {Now0 - WarmDays - 5})
ConcurrentUpdates ==
    [kind : {"content"}, value : {"c2"}] \cup [kind : {"layer"}, value : {"cold"}]

InitConcurrent == Init /\ embedding_fn

NextConcurrent ==
    \/ /\ calls < MaxCallsConcurrent
       /\ \E p \in Procs :
            \/ \E doc \in ConcurrentDocs : InOrder(doc.id) /\ CreateStart(p, doc)
            \/ \E d \in SeqIds, u \in ConcurrentUpdates : UpdateStart(p, d, u)
            \/ LifecycleStart(p)
            \/ SearchStart(p)
    \/ \E p \in Procs :
          \/ ContinueCreate(p, {TRUE}, {"none"})
          \/ ContinueUpdate(p, {TRUE})
          \/ ContinueLifecycle(p)
          \/ Return(p)

SpecConcurrent == InitConcurrent /\ [][NextConcurrent]_vars

\* one caller: creates, which may fail and be tried again, then a search
SearchDocs ==
    {doc \in NewDocs(SeqIds, {"c1"}, {TRUE}, {"hot"}, {Now0}) : doc.importance = 9}

NextSearch ==
    \/ /\ calls < MaxCallsSearch
       /\ \E doc \in SearchDocs :
             /\ calls = 0 => doc.id = "d1"
             /\ CreateStart("p1", doc)
    \/ /\ calls < MaxCallsSearch + 1
       /\ \E a \in SearchInputs : HybridSearchStart("p1", a)
    \/ ContinueCreate("p1", BOOLEAN, {"e1"})
    \/ ContinueSearch("p1", BOOLEAN, NerOutcomes)
    \/ Return("p1")

SpecSearch == Init /\ [][NextSearch]_vars

\* two callers that create documents of distinct ids, with or without an
\* embedding of their own; an embedding function is configured and no store
\* call fails
FreshId(d) == ~HasRow(meta, d) /\ \A q \in Procs : call[q].doc.id /= d

CreateDocs == NewDocs(DocIds, {"c1"}, BOOLEAN, {"hot"}, {Now0})

NextCreates ==
    \/ /\ calls < MaxCallsCreates
       /\ \E p \in Procs, doc \in CreateDocs : FreshId(doc.id) /\ CreateStart(p, doc)
    \/ \E p \in Procs :
          \/ CreateEmbed(p, TRUE)
          \/ ContinueCreate(p, {TRUE}, {"none", "e1"})
          \/ Return(p)

SpecCreates == InitConcurrent /\ [][NextCreates]_vars

\* one caller whose NER service may fail: creates of new documents, hybrid
\* searches and retrievals; no store call fails
ExtractorRetrieveInputs == {a \in RetrieveInputs : a.top_k = 1 /\ a.max_hops = 2}

NextExtractor ==
    \/ /\ calls < MaxCallsExtractor
       /\ \/ \E doc \in SearchDocs : ~HasRow(meta, doc.id) /\ CreateStart("p1", doc)
          \/ \E a \in SearchInputs : HybridSearchStart("p1", a)
          \/ \E a \in ExtractorRetrieveInputs : RetrieveStart("p1", a)
    \/ ContinueCreate("p1", {TRUE}, NerOutcomes)
    \/ ContinueSearch("p1", {TRUE}, NerOutcomes)
    \/ ContinueRetrieve("p1", {TRUE}, NerOutcomes)
    \/ Return("p1")

SpecExtractor == Init /\ [][NextExtractor]_vars

\* one caller of the retriever and of the pipeline
NextRetrieve ==
    \/ /\ calls < MaxCallsRetrieve
       /\ \/ \E a \in RetrieveInputs : RetrieveStart("p1", a)
          \/ \E a \in PipelineInputs : PipelineExecuteStart("p1", a)
    \/ ContinueRetrieve("p1", BOOLEAN, NerOutcomes)
    \/ PipelineExecuteStage("p1")
    \/ Return("p1")

SpecRetrieve == Init /\ [][NextRetrieve]_vars

\* one caller of _expand_with_multi_hop, as the tests of the retriever call it
NextExpand ==
    \/ /\ calls < MaxCallsExpand
       /\ \E initial_results \in InitialResults, max_hops \in MaxHopsValues :
             ExpandStart("p1", initial_results, max_hops)
    \/ \E ok \in BOOLEAN : ExpandSeed("p1", ok)
    \/ Return("p1")

SpecExpand == Init /\ [][NextExpand]_vars

\* one caller: creates whose texts name the entity once, twice or not at all,
\* which may fail and be tried again under the same id, and deletes
NextMentions ==
    \/ /\ calls < MaxCallsMentions
       /\ \/ \E doc \in SearchDocs : CreateStart("p1", doc)
          \/ \E d \in SeqIds : DeleteStart("p1", d)
    \/ ContinueCreate("p1", BOOLEAN, {"none", "e1", "e1e1"})
    \/ ContinueDelete("p1")
    \/ Return("p1")

SpecMentions == Init /\ [][NextMentions]_vars

\* the construction of hybrid retrievers
NextFusion ==
    \/ /\ calls < MaxCallsFusion
       /\ \E w \in FusionWeights : HybridRetrieverInit("p1", w)
    \/ Return("p1")

SpecFusion == Init /\ [][NextFusion]_vars

\* one caller of the vector index
NextFaiss ==
    \/ /\ calls < MaxCallsFaiss
       /\ \/ \E d \in FaissIds : FaissAdd("p1", d)
          \/ \E doc_ids \in Batches : FaissAddBatch("p1", doc_ids)
          \/ \E d \in FaissIds : FaissRemove("p1", d)
          \/ \E doc_ids \in Batches : RebuildIndex("p1", doc_ids)
          \/ SearchStart("p1")
    \/ Return("p1")

SpecFaiss == Init /\ [][NextFaiss]_vars

\* one caller creates documents of every type, with store calls that may
\* fail, and a second one gets them
RoundTripDocs ==
    {[doc EXCEPT !.doc_type = t] :
        doc \in {x \in NewDocs(SeqIds, Contents, {TRUE}, {"hot"},
                                 {Now0, Now0 - WarmDays}) : x.importance = 9},
        t \in DocTypes}

NextRoundTrip ==
    \/ /\ calls < MaxCallsRoundTrip
       /\ \/ \E doc \in RoundTripDocs : CreateStart("p1", doc)
          \/ \E d \in SeqIds : GetStart("p2", d)
    \/ ContinueCreate("p1", BOOLEAN, {"none"})
    \/ \E p \in Procs : Return(p)

SpecRoundTrip == Init /\ [][NextRoundTrip]_vars

\* ------------------------------------------------------------------ claims
AllIdle == \A p \in Procs : call[p] = Idle

Stepped(p) == call'[p] /= call[p]

\* nothing that was in the vector index or in the graph is taken out
NothingRemoved ==
    /\ \A i \in DOMAIN id_map : i \in DOMAIN id_map' /\ id_map'[i] = id_map[i]
    /\ \A d \in DOMAIN reverse_id_map : d \in DOMAIN reverse_id_map'
    /\ \A d \in DocIds : Len(graph'[d]) >= Len(graph[d])

\* C1: create inserts the metadata row only after the graph write and, for a
\* document with an embedding, the vector write have both returned; at the
\* insert the graph node and the vector entry of the document are there
C1_InsertAfterBothWrites ==
    [][\A p \in Procs :
         (call[p].op = "create" /\ Stepped(p) /\ meta' /= meta)
            => /\ call[p].gt = "done"
               /\ Len(graph'[call[p].doc.id]) > 0
               /\ call[p].doc.hasEmbedding
                    => /\ call[p].ft = "done"
                       /\ call[p].doc.id \in DOMAIN reverse_id_map'
                       /\ meta'[call[p].doc.id].faiss_index
                            = reverse_id_map'[call[p].doc.id]]_vars

C1_Witness ==
    \E p \in Procs :
        /\ call[p].op = "create" /\ call[p].result = "ok"
        /\ call[p].doc.hasEmbedding
        /\ HasRow(meta, call[p].doc.id)
        /\ meta[call[p].doc.id].status = "active"
        /\ Len(graph[call[p].doc.id]) > 0
        /\ Findable(call[p].doc.id)

\* C2: a create one of whose side writes failed never inserts a metadata
\* row, ends as a failure, and takes nothing back out of the vector index or
\* the graph
C2_FailedWriteNoRowNoRollback ==
    [][\A p \in Procs :
         (call[p].op = "create" /\ Stepped(p)
            /\ (call[p].ft = "failed" \/ call[p].gt = "failed"
                  \/ call'[p].ft = "failed" \/ call'[p].gt = "failed"))
            => /\ meta' = meta
               /\ NothingRemoved
               /\ call'[p] = Idle => call[p].result = "failed"]_vars

C2_Witness ==
    \E p \in Procs :
        /\ call[p].op = "create" /\ call[p].pc = "raised"
        /\ call[p].result = "failed"
        /\ call[p].gt = "failed" /\ call[p].ft = "done"
        /\ Findable(call[p].doc.id)
        /\ ~HasRow(meta, call[p].doc.id)

\* C3: a create of a document without embedding asks the embedder; when the
\* embedder fails the create ends as a failure and no store has changed, and
\* when it succeeds the vector write is scheduled
C3_EmbedFailureWritesNothing ==
    [][\A p \in Procs :
         (call[p].op = "create" /\ call[p].pc = "embed" /\ Stepped(p))
            => IF call'[p].doc.hasEmbedding
               THEN call'[p].pc = "gather" /\ call'[p].ft = "todo"
               ELSE /\ call'[p].pc = "done" /\ call'[p].result = "failed"
                    /\ call'[p].ft = "none" /\ call'[p].gt = "none"
                    /\ UNCHANGED stores]_vars

C3_Witness ==
    \E p \in Procs :
        /\ call[p].op = "create" /\ call[p].pc = "done"
        /\ call[p].result = "failed" /\ call[p].gt = "none"
        /\ ~call[p].doc.hasEmbedding
        /\ ~HasRow(meta, call[p].doc.id)
        /\ ~Findable(call[p].doc.id)
        /\ graph[call[p].doc.id] = <<>>

\* C4: when no call is running, every row with stored_in_faiss = true carries
\* a faiss_index that the vector index maps back to the id of the row
C4_StoredVectorResolvable ==
    AllIdle =>
        \A d \in DocIds :
            (HasRow(meta, d) /\ meta[d].stored_in_faiss)
                => /\ meta[d].faiss_index \in DOMAIN id_map
                   /\ id_map[meta[d].faiss_index] = d

\* C5: a delete that found the row returns true and leaves no live vector
\* entry, no graph node and no row of the document; a delete that found no
\* row returns false and changes no store
C5_DeleteRemovesEverywhere ==
    /\ [](\A p \in Procs :
            (call[p].op = "delete" /\ call[p].pc = "done" /\ call[p].result = "true")
               => /\ ~Findable(call[p].doc.id)
                  /\ graph[call[p].doc.id] = <<>>
                  /\ ~HasRow(meta, call[p].doc.id))
    /\ [][\A p \in Procs, d \in DocIds :
            (call[p] = Idle /\ call'[p].op = "delete" /\ call'[p].doc.id = d
               /\ ~HasRow(meta, d))
               => call'[p].result = "false" /\ UNCHANGED stores]_vars

LayerRank(l) == CASE l = "hot" -> 0 [] l = "warm" -> 1 [] l = "cold" -> 2

\* C6: the stored layer of a document never moves back towards hot
C6_LayerMonotonic ==
    [][\A d \in DocIds :
         (HasRow(meta, d) /\ HasRow(meta', d))
            => LayerRank(meta'[d].layer) >= LayerRank(meta[d].layer)]_vars

\* the hot scan of the run of slot p returned every document that matched
HotScanComplete(c) ==
    Cardinality(ListMatches(c.pre.meta, "hot", c.t0 - HotDays)) <= ListLimit

WasHotAndOld(c, d) ==
    /\ HasRow(c.pre.meta, d)
    /\ c.pre.meta[d].layer = "hot"
    /\ c.pre.meta[d].timestamp < c.t0 - HotDays

HadVector(c, d) ==
    c.pre.meta[d].stored_in_faiss /\ d \in DOMAIN c.pre.reverse_id_map

IsColdWithoutVector(d) ==
    /\ HasRow(meta, d)
    /\ meta[d].layer = "cold" /\ ~meta[d].stored_in_faiss
    /\ d \notin DOMAIN reverse_id_map

C8_SecondRunChangesNothing ==
    \A p \in Procs :
        (call[p].op = "lifecycle" /\ call[p].pc = "done" /\ Quiet(call[p])
           /\ call[p].after \in {"full", "truncated"})
           => Snapshot = call[p].pre

\* C8 as amended: so it is when no scan of the first run was cut at the limit
C8_SecondRunAfterFullRun ==
    \A p \in Procs :
        (call[p].op = "lifecycle" /\ call[p].pc = "done" /\ Quiet(call[p])
           /\ call[p].after = "full")
           => Snapshot = call[p].pre

C8_Witness ==
    \E p \in Procs, d \in DocIds :
        /\ call[p].op = "lifecycle" /\ call[p].pc = "done"
        /\ call[p].after = "full"
        /\ HasRow(meta, d) /\ meta[d].layer = "cold"
        /\ meta[d].faiss_index /= NoIndex /\ ~meta[d].stored_in_faiss
        /\ Snapshot = call[p].pre

\* C9: no step of a lifecycle run writes warm over a stored cold layer
C9_NoWarmOverCold ==
    [][\A p \in Procs, d \in DocIds :
         (call'[p].op = "lifecycle" /\ Stepped(p)
            /\ HasRow(meta, d) /\ meta[d].layer = "cold" /\ HasRow(meta', d))
            => meta'[d].layer /= "warm"]_vars

\* C10: update removes the old vector entry and adds the new one in two steps;
\* the remove leaves the row in place and the document out of the index, the
\* add puts the document back
C10_RemoveThenAdd ==
    [][\A p \in Procs :
         (call[p].op = "update" /\ Stepped(p))
            => /\ call[p].pc = "remove"
                    => /\ call'[p].pc = "add"
                       /\ call[p].doc.id \notin DOMAIN reverse_id_map'
                       /\ meta' = meta
               /\ call[p].pc = "add"
                    => /\ call[p].doc.id \in DOMAIN reverse_id_map'
                       /\ id_map'[reverse_id_map'[call[p].doc.id]] = call[p].doc.id
                       /\ Findable(call[p].doc.id)']_vars

\* a search that ran between the two steps missed a document whose row says
\* it is in the index
C10_Witness ==
    \E p, q \in Procs :
        /\ call[p].op = "update" /\ call[p].pc = "add"
        /\ HasRow(meta, call[p].doc.id)
        /\ meta[call[p].doc.id].stored_in_faiss
        /\ meta[call[p].doc.id].layer = "hot"
        /\ call[q].op = "search" /\ call[q].startCalls = calls
        /\ call[p].doc.id \notin call[q].found
        /\ ~Findable(call[p].doc.id)

Searched(p) ==
    call[p].op = "hybrid_search" /\ call[p].pc = "done" /\ call[p].result = "ok"

\* the doc ids a side returned, and the scores it returned for doc id d
SideDocs(side) == {side[i].doc_id : i \in DOMAIN side}

SideScores(side, d) ==
    IF d \in SideDocs(side)
    THEN {side[i].score : i \in {j \in DOMAIN side : side[j].doc_id = d}}
    ELSE {0}

\* C12: the fused list holds every doc id a side returned exactly once, with
\* the score vecScore * vectorWeight + graphScore * graphWeight, a side that
\* did not return the doc id counting as 0, highest score first
C12_FusedScores ==
    \A p \in Procs :
        Searched(p) =>
            LET l == call[p].loc
                f == l.merged
            IN  /\ SideDocs(f) = SideDocs(l.fr) \cup SideDocs(l.gr)
                /\ \A i, j \in DOMAIN f : i /= j => f[i].doc_id /= f[j].doc_id
                /\ \A i \in DOMAIN f :
                     \E v \in SideScores(l.fr, f[i].doc_id),
                        g \in SideScores(l.gr, f[i].doc_id) :
                          f[i].score = v * l.weights[1] + g * l.weights[2]
                /\ \A i, j \in DOMAIN f : i < j => f[i].score >= f[j].score

\* the tag of a doc id by the sides that returned it; the vector side is
\* tagged "faiss" in the code
SourceOf(fr, gr, d) ==
    IF d \in SideDocs(fr) /\ d \in SideDocs(gr) THEN "hybrid"
    ELSE IF d \in SideDocs(fr) THEN "faiss" ELSE "graph"

\* C13: every result is tagged hybrid when both sides returned its doc id, by
\* the vector side when only that side returned it, graph when only the graph
\* side returned it
C13_SourceTags ==
    \A p \in Procs :
        Searched(p) =>
            \A i \in DOMAIN call[p].loc.out :
                call[p].loc.out[i].source
                    = SourceOf(call[p].loc.fr, call[p].loc.gr, call[p].loc.out[i].doc_id)

\* the doc ids of a result list in the order of their first occurrence
RECURSIVE DocOrder(_)
DocOrder(q) ==
    IF q = <<>> THEN <<>>
    ELSE LET rest == DocOrder(SubSeq(q, 1, Len(q) - 1))
             d == q[Len(q)].doc_id
         IN  IF d \in {rest[i] : i \in DOMAIN rest} THEN rest ELSE Append(rest, d)

\* C14: with vector weight 1 and graph weight 0 the documents of the vector
\* side that the search returns stand in the order the vector search
\* returned them
C14_VectorOnlyOrder ==
    \A p \in Procs :
        (Searched(p) /\ call[p].loc.weights = <<10, 0>>) =>
            SelectSeq(DocOrder(call[p].loc.out),
                      LAMBDA d : d \in SideDocs(call[p].loc.fr))
                = SelectSeq(DocOrder(call[p].loc.fr),
                            LAMBDA d : d \in SideDocs(call[p].loc.out))

\* the row of the document has the value of every key of the filters
SatisfiesFilters(row, filters) ==
    filters = NoFilters \/ row.layer = filters.layer

\* C15: every result of a search with filters is a document whose row
\* satisfies the filters
C15_FiltersApplied ==
    \A p \in Procs :
        Searched(p) =>
            \A i \in DOMAIN call[p].loc.out :
                /\ HasRow(meta, call[p].loc.out[i].doc_id)
                /\ SatisfiesFilters(meta[call[p].loc.out[i].doc_id], call[p].loc.filters)

\* C16: a search one side of which failed does not fail: it returns the
\* results of the other side
C16_DegradesToOtherSide ==
    \A p \in Procs :
        (call[p].op = "hybrid_search" /\ call[p].pc = "done") =>
            LET l == call[p].loc
            IN  /\ (call[p].ft = "failed" /\ call[p].gt = "done" /\ ~l.graphFailed)
                      => /\ call[p].result = "ok"
                         /\ l.out = Hydrate(meta, MergeResults(<<>>, l.gr, l.weights[1],
                                                               l.weights[2]), l.top_k)
                /\ (call[p].ft = "done" /\ l.graphFailed)
                      => /\ call[p].result = "ok"
                         /\ l.out = Hydrate(meta, MergeResults(l.fr, <<>>, l.weights[1],
                                                               l.weights[2]), l.top_k)

\* the NER service raised in the call
NerFailed(c) ==
    \/ c.op = "create" /\ c.loc /= NoLocals /\ c.loc.nerFailed
    \/ c.op = "hybrid_search" /\ c.loc.nerFailed
    \/ c.op = "retrieve" /\ c.loc.ner = "fail"

\* C17: a failure of the EntityExtractor is never fatal.  The step of create
\* in which the extractor fails writes no entity node and no MENTIONS edge,
\* and a create, a hybrid_search or a retrieve whose extractor failed ends
\* with a result, never raising; the create has then written the Document
\* node, without an edge, and inserted the row.
C17_ExtractorFailureNotFatal ==
    [][\A p \in Procs :
          /\ (call[p].op = "create" /\ call[p].gt = "ner" /\ NerFailed(call'[p]))
                => entities' = entities /\ graph' = graph
          /\ (call'[p].pc \in {"done", "raised"} /\ NerFailed(call'[p]))
                => /\ call'[p].result = "ok"
                   /\ call'[p].op = "create"
                        => /\ HasRow(meta', call'[p].doc.id)
                           /\ meta'[call'[p].doc.id].stored_in_graph
                           /\ graph'[call'[p].doc.id] = <<NoEdge>>]_vars

\* a create whose extractor failed has returned its document, while another
\* document has its entity
C17_Witness ==
    /\ call["p1"].op = "create" /\ call["p1"].pc = "done"
    /\ NerFailed(call["p1"]) /\ call["p1"].result = "ok"
    /\ entities = {"e1"}

\* a retrieve that went past the check of its query and has returned
Retrieved(p) ==
    /\ call[p].op = "retrieve" /\ call[p].pc = "done"
    /\ call[p].loc.nerCalls = 1

\* C18 as stated: when the EntityExtractor fails or returns no entities, the
\* query entities are those of the fallback, and retrieve returns an empty
\* list without querying the graph only when the fallback yields no entities
\* either.
C18_FallbackOnFailureOrEmpty ==
    \A p \in Procs :
       (Retrieved(p) /\ call[p].loc.ner \in {"fail", "none"})
          => /\ \E jieba \in BOOLEAN :
                   call[p].loc.entities = FallbackExtract(call[p].loc.query, jieba)
             /\ call[p].loc.graphCalls = 0
                   => \E jieba \in BOOLEAN :
                         FallbackExtract(call[p].loc.query, jieba) = <<>>

\* C18, amended: when the EntityExtractor fails, the query entities are those
\* of the fallback; when it returns no entities there are none.  retrieve
\* returns an empty list without querying the graph exactly when there is no
\* query entity.
C18_FallbackOnFailure ==
    \A p \in Procs :
       Retrieved(p)
          => /\ call[p].loc.ner = "fail"
                   => call[p].loc.entities =
                         FallbackExtract(call[p].loc.query, call[p].loc.jieba)
             /\ call[p].loc.ner = "none" => call[p].loc.entities = <<>>
             /\ call[p].loc.graphCalls = 0 <=> call[p].loc.entities = <<>>
             /\ call[p].loc.entities = <<>>
                   => call[p].result = "ok" /\ call[p].loc.out = 0

\* the extractor failed on a word followed by a stop word: the word alone is
\* the entity the graph was queried with
C18_Witness ==
    /\ Retrieved("p1") /\ call["p1"].loc.ner = "fail" /\ call["p1"].loc.jieba
    /\ call["p1"].loc.query.lcut = <<Word("ceshi", 2), Word("de", 1)>>
    /\ call["p1"].loc.entities = <<Word("ceshi", 2)>>
    /\ call["p1"].loc.graphCalls = 1

\* C19: for an empty or whitespace-only query, retrieve returns an empty list
\* without calling the extractor or the graph store, and execute returns an
\* empty list without running a stage.
C19_BlankQueryReturnsEmpty ==
    \A p \in Procs :
       /\ (call[p].op = "retrieve" /\ call[p].loc.query.strip = 0)
             => /\ call[p].pc = "done" /\ call[p].result = "ok"
                /\ call[p].loc.out = 0
                /\ call[p].loc.nerCalls = 0 /\ call[p].loc.graphCalls = 0
                /\ call[p].loc.finds = <<>>
       /\ (call[p].op = "execute" /\ call[p].loc.query.strip = 0)
             => /\ call[p].pc = "done" /\ call[p].result = "ok"
                /\ call[p].loc.out = 0 /\ call[p].loc.ran = 0

\* a retrieve of a query of two spaces has returned
C19_Witness ==
    /\ call["p1"].op = "retrieve" /\ call["p1"].pc = "done"
    /\ call["p1"].loc.query.len = 2 /\ call["p1"].loc.query.strip = 0
    /\ call["p1"].loc.out = 0

\* C20: in one retrieve with multi-hop enabled, find_related_docs is called
\* at most 5 times, each time with limit 10 and the configured max_hops, and
\* at most 50 documents are added to the initial ones; without multi-hop it
\* is not called.
C20_ExpansionCapped ==
    \A p \in Procs :
       call[p].op = "retrieve"
          => /\ Len(call[p].loc.finds) <= 5
             /\ Len(call[p].loc.finds) <= call[p].loc.initial
             /\ \A i \in DOMAIN call[p].loc.finds :
                   call[p].loc.finds[i] = <<call[p].loc.max_hops, 10>>
             /\ call[p].loc.added <= 50
             /\ ~call[p].loc.enable_multi_hop => call[p].loc.finds = <<>>

\* six initial matches: five of them were expanded, each with ten new
\* documents
C20_Witness ==
    /\ call["p1"].op = "retrieve" /\ call["p1"].pc = "done"
    /\ call["p1"].loc.initial = 6
    /\ Len(call["p1"].loc.finds) = 5
    /\ call["p1"].loc.added = 50

\* slot p has just gone through one more seed of the expansion
SeedDone(p) ==
    /\ call[p].op = "expand" /\ call'[p].op = "expand"
    /\ call'[p].loc.seeds = call[p].loc.seeds + 1

\* the entries of the expansion that are not initial results
Added(c) ==
    SubSeq(c.loc.expanded, Len(c.loc.initial_results) + 1, Len(c.loc.expanded))

\* C21: a document added by the expansion at hop distance d from a seed has
\* the score of the seed times 0.7^d (times 0.7 at distance 1, times 0.49 at
\* distance 2), which is strictly below a positive score of the seed.
C21_DecayedScore ==
    [][\A p \in Procs :
          SeedDone(p) =>
             LET seed == call[p].loc.initial_results[call'[p].loc.seeds]
             IN  \A i \in (Len(call[p].loc.expanded) + 1)
                             .. Len(call'[p].loc.expanded) :
                    LET e == call'[p].loc.expanded[i]
                    IN  /\ e.base_doc_id = seed.doc_id
                        /\ e.hop_distance \in {1, 2}
                        /\ \E j \in DOMAIN call'[p].loc.related_docs :
                              /\ call'[p].loc.related_docs[j].doc_id = e.doc_id
                              /\ call'[p].loc.related_docs[j].distance
                                    \in {0, e.hop_distance}
                        /\ e.hop_distance = 1 => e.score * 10 = seed.score * 7
                        /\ e.hop_distance = 2 => e.score * 100 = seed.score * 49
                        /\ seed.score > 0 => e.score < seed.score]_vars

\* a document two hops from a seed of score 1.0 was added with score 0.49
C21_Witness ==
    /\ call["p1"].op = "expand" /\ call["p1"].loc.seeds = 1
    /\ call["p1"].loc.initial_results[1].score = 10000
    /\ \E i \in DOMAIN Added(call["p1"]) :
          /\ Added(call["p1"])[i].hop_distance = 2
          /\ Added(call["p1"])[i].score = 4900

\* C22: the expansion keeps the first occurrence of each doc id: a seed
\* leaves every entry that is in the result set as it is, the initial
\* results stay in front, and the doc ids added are no initial doc ids and
\* are added once each.
C22_FirstOccurrenceKept ==
    [][\A p \in Procs :
          SeedDone(p) =>
             LET before == call[p].loc.expanded
                 after == call'[p].loc.expanded
                 initial == call'[p].loc.initial_results
                 added == Added(call'[p])
             IN  /\ Len(after) >= Len(before)
                 /\ SubSeq(after, 1, Len(before)) = before
                 /\ SubSeq(after, 1, Len(initial)) = initial
                 /\ \A i \in DOMAIN added :
                       /\ \A j \in DOMAIN initial :
                             added[i].doc_id /= initial[j].doc_id
                       /\ \A j \in DOMAIN added :
                             added[i].doc_id = added[j].doc_id => i = j]_vars

\* d3 was added two hops from the first seed with score 0.49; the second
\* seed, of score 1.0, has it one hop away and d3 keeps its entry
C22_Witness ==
    /\ call["p1"].op = "expand" /\ call["p1"].pc = "done"
    /\ call["p1"].loc.seeds = 2
    /\ call["p1"].loc.initial_results[2].score = 10000
    /\ \E j \in DOMAIN call["p1"].loc.related_docs :
          call["p1"].loc.related_docs[j] = [doc_id |-> "d3", distance |-> 1]
    /\ Added(call["p1"]) =
          <<[doc_id |-> "d3", score |-> 4900, source |-> "graph_expanded",
             hop_distance |-> 2, base_doc_id |-> "d1"]>>

\* C23: execute on a non-blank query runs its stages in the order they were
\* added, the first one receiving no previous results and each later one the
\* output of the stage before it, and returns the output of the last stage
\* cut to top_k.
C23_StagesInOrder ==
    \A p \in Procs :
       (call[p].op = "execute" /\ call[p].loc.query.strip > 0)
          => LET l == call[p].loc
             IN  /\ l.ran <= l.stages
                 /\ Len(l.received) = l.ran /\ Len(l.outputs) = l.ran
                 /\ \A i \in DOMAIN l.received :
                       l.received[i] = IF i = 1 THEN -1 ELSE l.outputs[i - 1]
                 /\ call[p].pc = "done"
                       => /\ l.ran = l.stages
                          /\ l.out <= l.top_k
                          /\ l.stages > 0
                                => l.out = IF l.outputs[l.stages] < l.top_k
                                           THEN l.outputs[l.stages] ELSE l.top_k
                          /\ l.stages = 0 => l.out = 0

\* two stages have run: the second received the five results of the first
\* and returned three, of which one is returned
C23_Witness ==
    /\ call["p1"].op = "execute" /\ call["p1"].pc = "done"
    /\ call["p1"].loc.received = <<-1, 5>>
    /\ call["p1"].loc.outputs = <<5, 3>>
    /\ call["p1"].loc.top_k = 1 /\ call["p1"].loc.out = 1

\* the weight stored for a Document node: none when it has no MENTIONS edge
StoredWeight(w) == IF w = NoEdge THEN 0 ELSE w

\* slot p has just made the create_relation calls of its document
RelationsWritten(p) ==
    /\ call[p].op = "create" /\ call[p].gt = "ner"
    /\ call'[p].op = "create" /\ call'[p].gt /= "ner"

\* C24: the weight of a MENTIONS relation only accumulates.  The
\* create_relation calls of a document add the weights passed to the weight
\* stored for each of its nodes; no other step changes the weight of a node
\* that stays, and no step lowers one.
C24_WeightAccumulates ==
    [][\A d \in DocIds :
          /\ (\E p \in Procs : RelationsWritten(p) /\ call[p].doc.id = d)
                => /\ Len(graph'[d]) = Len(graph[d])
                   /\ \A p \in Procs, i \in DOMAIN graph[d] :
                         (RelationsWritten(p) /\ call[p].doc.id = d)
                            => StoredWeight(graph'[d][i]) =
                                  StoredWeight(graph[d][i])
                                     + call'[p].loc.mentions * EntityScore
          /\ ~(\E p \in Procs : RelationsWritten(p) /\ call[p].doc.id = d)
                => \A i \in (DOMAIN graph[d]) \cap (DOMAIN graph'[d]) :
                      graph'[d][i] = graph[d][i]
          /\ \A i \in (DOMAIN graph[d]) \cap (DOMAIN graph'[d]) :
                graph'[d][i] >= graph[d][i]]_vars

\* a create that failed after its graph write was tried again under the same
\* id with a text that names the entity twice: the first node of d1 has the
\* weight of the three mentions
C24_Witness ==
    /\ Len(graph["d1"]) = 2
    /\ graph["d1"][1] = 3 * EntityScore
    /\ graph["d1"][2] = 2 * EntityScore

\* C25: the fusion renormalizes its weights so that they sum to 1, and uses
\* an equal split of the weights when the configured weights sum to 0: the
\* construction does not fail.
C25_WeightsNormalized ==
    \A p \in Procs :
       call[p].op = "HybridRetriever"
          => LET w == call[p].loc.weights
                 n == call[p].loc.normalized
                 sum == w[1] + w[2] + w[3] + w[4]
             IN  /\ call[p].result = "ok"
                 /\ Len(n) = 4
                 /\ \A i \in 1 .. 4 : n[i][2] > 0
                 /\ sum > 0 => \A i \in 1 .. 4 : n[i][1] * sum = w[i] * n[i][2]
                 /\ sum = 0 => \A i \in 1 .. 4 : n[i][1] * 4 = n[i][2]

\* C26: removing a doc id from the vector index is idempotent.  The remove
\* of a present doc id returns true; a remove that follows a remove of the
\* same doc id returns false and leaves the index as it was; and from the
\* remove to the next call that adds to the index no search returns the doc
\* id.
C26_RemoveIdempotent ==
    \A p \in Procs :
       /\ call[p].op = "remove"
             => /\ call[p].doc.id \in DOMAIN call[p].pre.reverse_id_map
                      => call[p].result = "true"
                /\ call[p].after = call[p].doc.id
                      => /\ call[p].result = "false"
                         /\ id_map = call[p].pre.id_map
                         /\ reverse_id_map = call[p].pre.reverse_id_map
                /\ call[p].doc.id \notin Search(id_map)
       /\ (call[p].op = "search" /\ lastRun \in FaissIds)
             => lastRun \notin call[p].found

\* C30: after any sequence of add, add_batch, remove and rebuild_index calls
\* the map of the faiss ids to the doc ids and the map of the doc ids to the
\* faiss ids are inverse of each other.
C30_MapsInverse ==
    /\ \A i \in DOMAIN id_map :
          /\ id_map[i] \in DOMAIN reverse_id_map
          /\ reverse_id_map[id_map[i]] = i
    /\ \A d \in DOMAIN reverse_id_map :
          /\ reverse_id_map[d] \in DOMAIN id_map
          /\ id_map[reverse_id_map[d]] = d

LiveEntries(map, d) == {i \in DOMAIN map : map[i] = d}

\* the step on which an update of the content returns a document
ContentUpdated(p) ==
    /\ call'[p] /= call[p]
    /\ call'[p].op = "update" /\ call'[p].upd.kind = "content"
    /\ call'[p].pc = "done" /\ call'[p].result = "ok"

\* C28: when an update of the content returns without error, the index has
\* exactly one live entry for the document, the row has the new content, and
\* stored_in_faiss and faiss_index of the row describe that entry
C28_ContentUpdateReindexes ==
    [][\A p \in Procs :
         ContentUpdated(p)
            => LET d == call'[p].doc.id
               IN  /\ Cardinality(LiveEntries(id_map', d)) = 1
                   /\ meta'[d].content = call'[p].upd.value
                   /\ meta'[d].stored_in_faiss
                   /\ meta'[d].faiss_index \in LiveEntries(id_map', d)]_vars

\* line 248-252 and 267-271: the row is matched by one of the two scans of a
\* run that read the clock at t0
PastThreshold(row, t0) ==
    \/ row.layer = "hot" /\ row.timestamp < t0 - HotDays
    \/ row.layer = "warm" /\ row.timestamp < t0 - WarmDays

====
